---- MODULE Spec2Model ----
(***************************************************************************)
(* A model of the two programs of the repository:                          *)
(*   - setup.py: version stamping (get_build_version), libtpu bundling     *)
(*     (maybe_bundle_libtpu), the bazel command line (bazel_build) and the *)
(*     Clean command (Clean.run);                                          *)
(*   - test/fsdp_dynamo_resnet_latency_test.py: inference_resnet, run      *)
(*     statement by statement with Python's name resolution.               *)
(* Character strings the code inspects are sequences of one-character      *)
(* strings, so that upper(), slicing and prefix matching are computed.     *)
(***************************************************************************)
EXTENDS Integers, Sequences, FiniteSets, TLC

VARIABLES
  pc,            \* position of the running program
  env,           \* os.environ: variable name -> value, or Unset
  raised,        \* the exception that ended the program, or "none"
  xla_git_sha,   \* setup.py:178, output of git rev-parse HEAD
  version,       \* setup.py:179
  libtpu,        \* maybe_bundle_libtpu: the file torch_xla/lib/libtpu.so and
                 \* what the function finds around it
  globals,       \* setup.py:189-194: DEBUG, IS_WINDOWS, GCLOUD_KEY_FILE,
                 \* CACHE_SILO_NAME
  bazel_argv,    \* setup.py:228, the command line handed to self.spawn
  clean,         \* Clean.run: .gitignore, the files of the directory, the
                 \* loop position, what was deleted by which line
  interp         \* inference_resnet: flags, bound names, values, effects

vars ==
  <<pc, env, raised, xla_git_sha, version, libtpu, globals, bazel_argv, clean,
    interp>>

\* The value of a variable that is not set (os.getenv then returns its default);
\* no character string equals it.
Unset == <<"<unset>">>

----------------------------------------------------------------------------
(* Strings *)

LowerLetters ==
  <<"a","b","c","d","e","f","g","h","i","j","k","l","m",
    "n","o","p","q","r","s","t","u","v","w","x","y","z">>

UpperLetters ==
  <<"A","B","C","D","E","F","G","H","I","J","K","L","M",
    "N","O","P","Q","R","S","T","U","V","W","X","Y","Z">>

\* str.upper() on one character: a lower-case letter becomes its capital,
\* every other character is kept.
UpperChar(c) ==
  IF \E i \in 1..Len(LowerLetters) : LowerLetters[i] = c
  THEN UpperLetters[CHOOSE i \in 1..Len(LowerLetters) : LowerLetters[i] = c]
  ELSE c

\* str.upper()
Upper(s) == [i \in 1..Len(s) |-> UpperChar(s[i])]

\* s[:n] for n >= 0
Slice(s, n) == SubSeq(s, 1, IF Len(s) < n THEN Len(s) ELSE n)

----------------------------------------------------------------------------
(* Environment *)

EnvNames ==
  {"TORCH_XLA_VERSION", "VERSIONED_XLA_BUILD", "DEBUG", "BAZEL_VERBOSE",
   "XLA_CUDA", "XLA_CPU_USE_ACL", "BUNDLE_LIBTPU", "GCLOUD_SERVICE_KEY_FILE",
   "CACHE_SILO_NAME", "SILO_NAME"}

\* os.getenv(name, default)
getenv(name, default) == IF env[name] = Unset THEN default ELSE env[name]

TruthyStrings ==
  {<<"O","N">>, <<"1">>, <<"Y","E","S">>, <<"T","R","U","E">>, <<"Y">>}

\* The comparison without upper(): only capitals are accepted.
_check_env_flag_case_sensitive(name, default) ==
  getenv(name, default) \in TruthyStrings

\* _check_env_flag(name, default)
_check_env_flag(name, default) == Upper(getenv(name, default)) \in TruthyStrings

\* Values an environment flag is given in the checked runs: every accepted
\* word in some spelling, and values that are not accepted.
FlagValues ==
  {Unset, <<>>, <<"0">>, <<"1">>, <<"o","n">>, <<"O","n">>, <<"Y","e","s">>,
   <<"t","r","u","e">>, <<"y">>, <<"n","o">>, <<"o","n","e">>}

EmptyEnv == [n \in EnvNames |-> Unset]

----------------------------------------------------------------------------
(* The parts of the state a program does not touch *)

IdleVersion == xla_git_sha = <<>> /\ version = Unset

IdleLibtpu == libtpu = [so |-> "absent"]

IdleBazel == globals = Unset /\ bazel_argv = <<>>

IdleClean == clean = [gitignore |-> <<>>, files |-> {}]

IdleInterp == interp = [flags |-> Unset]

----------------------------------------------------------------------------
(* setup.py: get_build_version *)

DefaultVersion == <<"2",".","1",".","0">>

ShaSource == <<"3","f","a","9","0","c","7","e","1","d","b","2">>

MaxShaLen == 8

ShaValues == {SubSeq(ShaSource, 1, n) : n \in 0..MaxShaLen}

VersionValues == {Unset, <<>>, <<"1",".","1","3">>, <<"2",".","1",".","0">>}

\* A slip in the slice bound: one character too many.
get_build_version_slice8(sha) ==
  LET v == getenv("TORCH_XLA_VERSION", DefaultVersion)
  IN  IF _check_env_flag("VERSIONED_XLA_BUILD", <<"0">>)
      THEN v \o <<"+">> \o Slice(sha, 8)
      ELSE v

get_build_version(sha) ==
  LET v == getenv("TORCH_XLA_VERSION", DefaultVersion)
  IN  IF _check_env_flag("VERSIONED_XLA_BUILD", <<"0">>)
      THEN v \o <<"+">> \o Slice(sha, 7)
      ELSE v

InitVersion ==
  /\ pc = "get_build_version"
  /\ \E v \in VersionValues, f \in FlagValues :
       env = [EmptyEnv EXCEPT !["TORCH_XLA_VERSION"] = v,
                              !["VERSIONED_XLA_BUILD"] = f]
  /\ xla_git_sha \in ShaValues
  /\ version = Unset
  /\ raised = "none"
  /\ IdleLibtpu /\ IdleBazel /\ IdleClean /\ IdleInterp

\* setup.py:179
GetBuildVersion ==
  /\ pc = "get_build_version"
  /\ version' = get_build_version(xla_git_sha)
  /\ pc' = "version_done"
  /\ UNCHANGED <<env, xla_git_sha, raised, libtpu, globals, bazel_argv, clean,
                 interp>>

NextVersion == GetBuildVersion

SpecVersion == InitVersion /\ [][NextVersion]_vars

----------------------------------------------------------------------------
(* Statements of the claims about the environment flags *)

AcceptedWords ==
  {<<"o","n">>, <<"1">>, <<"y","e","s">>, <<"t","r","u","e">>, <<"y">>}

\* The same character up to the case of a letter.
SameIgnoringCase(c, d) ==
  \/ c = d
  \/ \E i \in 1..Len(LowerLetters) :
        /\ c \in {LowerLetters[i], UpperLetters[i]}
        /\ d \in {LowerLetters[i], UpperLetters[i]}

\* The variable is set to one of ON, 1, YES, TRUE, Y in some casing.
IsOn(name) ==
  /\ env[name] # Unset
  /\ \E w \in AcceptedWords :
       /\ Len(w) = Len(env[name])
       /\ \A i \in 1..Len(w) : SameIgnoringCase(env[name][i], w[i])

\* p is s followed by t
IsConcat(p, s, t) ==
  /\ Len(p) = Len(s) + Len(t)
  /\ \A i \in 1..Len(s) : p[i] = s[i]
  /\ \A i \in 1..Len(t) : p[Len(s) + i] = t[i]

\* t is the first n characters of s (all of s when it is shorter)
IsFirstChars(t, s, n) ==
  /\ Len(t) = (IF Len(s) < n THEN Len(s) ELSE n)
  /\ \A i \in 1..Len(t) : t[i] = s[i]

BaseVersion ==
  IF env["TORCH_XLA_VERSION"] = Unset THEN <<"2",".","1",".","0">>
  ELSE env["TORCH_XLA_VERSION"]

\* C3: the build version is TORCH_XLA_VERSION (or 2.1.0 when unset), followed
\* by '+' and the first 7 characters of the XLA git SHA exactly when
\* VERSIONED_XLA_BUILD is set to a truthy value, and by nothing otherwise.
C3_BuildVersion ==
  pc = "version_done" =>
    IF IsOn("VERSIONED_XLA_BUILD")
    THEN \E t \in ShaValues :
           /\ IsFirstChars(t, xla_git_sha, 7)
           /\ IsConcat(version, BaseVersion, <<"+">> \o t)
    ELSE version = BaseVersion

C3_Witness ==
  /\ pc = "version_done"
  /\ IsOn("VERSIONED_XLA_BUILD")
  /\ env["TORCH_XLA_VERSION"] = <<"1",".","1","3">>
  /\ Len(xla_git_sha) > 7
  /\ Len(version) = 4 + 1 + 7

----------------------------------------------------------------------------
(* setup.py: maybe_bundle_libtpu *)

\* libtpu.so is the state of the file torch_xla/lib/libtpu.so: "absent",
\* "stale" (left by an earlier build), "copied" (from the installed module),
\* "downloaded" (from _libtpu_storage_path) or "partial" (created, not
\* completely written). The other fields are what the function meets:
\* whether os.remove may remove the file, whether `import libtpu` finds the
\* module ("installed"), does not ("not_found") or fails otherwise ("broken"),
\* whether shutil.copyfile succeeds, and how the download ends.
LibtpuInputs ==
  [so : {"absent", "stale"}, had_stale : BOOLEAN, removable : BOOLEAN,
   module : {"installed", "not_found", "broken"}, copy_ok : BOOLEAN,
   net : {"ok", "http_error", "bad_wheel"}]

InitLibtpu ==
  /\ pc = "bundle_remove"
  /\ \E f \in FlagValues : env = [EmptyEnv EXCEPT !["BUNDLE_LIBTPU"] = f]
  /\ libtpu \in LibtpuInputs
  /\ libtpu.had_stale = (libtpu.so = "stale")
  /\ raised = "none"
  /\ IdleVersion /\ IdleBazel /\ IdleClean /\ IdleInterp

LibtpuUnchanged ==
  UNCHANGED <<env, xla_git_sha, version, globals, bazel_argv, clean, interp>>

\* A build that forgets to remove the copy of an earlier build.
RemoveStaleLibtpu_Keep ==
  /\ pc = "bundle_remove"
  /\ pc' = "bundle_check"
  /\ UNCHANGED <<libtpu, raised>>
  /\ LibtpuUnchanged

\* setup.py:126-127: with contextlib.suppress(FileNotFoundError): os.remove
RemoveStaleLibtpu ==
  /\ pc = "bundle_remove"
  /\ IF libtpu.so = "absent"
     THEN pc' = "bundle_check" /\ UNCHANGED <<libtpu, raised>>
     ELSE IF libtpu.removable
          THEN /\ libtpu' = [libtpu EXCEPT !.so = "absent"]
               /\ pc' = "bundle_check"
               /\ UNCHANGED raised
          ELSE /\ raised' = "OSError"
               /\ pc' = "raised"
               /\ UNCHANGED libtpu
  /\ LibtpuUnchanged

\* setup.py:129-130
CheckBundleFlag ==
  /\ pc = "bundle_check"
  /\ pc' = IF ~ _check_env_flag("BUNDLE_LIBTPU", <<"0">>)
           THEN "bundle_returned" ELSE "bundle_import"
  /\ UNCHANGED <<libtpu, raised>>
  /\ LibtpuUnchanged

\* setup.py:132-137: import libtpu; shutil.copyfile; except ModuleNotFoundError
ImportLibtpu ==
  /\ pc = "bundle_import"
  /\ CASE libtpu.module = "installed" /\ libtpu.copy_ok ->
            /\ libtpu' = [libtpu EXCEPT !.so = "copied"]
            /\ pc' = "bundle_returned"
            /\ UNCHANGED raised
       [] libtpu.module = "installed" /\ ~ libtpu.copy_ok ->
            /\ \E left \in {"absent", "partial"} :
                 libtpu' = [libtpu EXCEPT !.so = left]
            /\ raised' = "OSError"
            /\ pc' = "raised"
       [] libtpu.module = "not_found" ->
            /\ pc' = "bundle_download"
            /\ UNCHANGED <<libtpu, raised>>
       [] libtpu.module = "broken" ->
            /\ raised' = "ImportError"
            /\ pc' = "raised"
            /\ UNCHANGED libtpu
  /\ LibtpuUnchanged

\* setup.py:138-149: requests.get, raise_for_status, write the wheel, open
\* libtpu.so for writing and write the member of the wheel into it
DownloadLibtpu ==
  /\ pc = "bundle_download"
  /\ CASE libtpu.net = "ok" ->
            /\ libtpu' = [libtpu EXCEPT !.so = "downloaded"]
            /\ pc' = "bundle_returned"
            /\ UNCHANGED raised
       [] libtpu.net = "http_error" ->
            /\ raised' = "HTTPError"
            /\ pc' = "raised"
            /\ UNCHANGED libtpu
       [] libtpu.net = "bad_wheel" ->
            /\ libtpu' = [libtpu EXCEPT !.so = "partial"]
            /\ raised' = "BadZipFile"
            /\ pc' = "raised"
  /\ LibtpuUnchanged

NextLibtpu ==
  \/ RemoveStaleLibtpu
  \/ CheckBundleFlag
  \/ ImportLibtpu
  \/ DownloadLibtpu

SpecLibtpu == InitLibtpu /\ [][NextLibtpu]_vars

\* C5: when maybe_bundle_libtpu has returned, libtpu.so exists exactly when
\* BUNDLE_LIBTPU is truthy (a stale copy is gone otherwise); it is the copy of
\* the installed module's file when the module is importable, and the
\* downloaded one only when the module was not found.
C5_BundleLibtpu ==
  pc = "bundle_returned" =>
    /\ (libtpu.so # "absent") <=> IsOn("BUNDLE_LIBTPU")
    /\ IsOn("BUNDLE_LIBTPU") =>
         libtpu.so = (IF libtpu.module = "installed" THEN "copied"
                      ELSE "downloaded")
    /\ libtpu.so = "downloaded" => libtpu.module = "not_found"

C5_Witness ==
  /\ pc = "bundle_returned"
  /\ libtpu.had_stale
  /\ env["BUNDLE_LIBTPU"] = <<"n","o">>
  /\ libtpu.so = "absent"

----------------------------------------------------------------------------
(* setup.py: module globals and BuildBazelExtension.bazel_build *)

\* One element of bazel_argv: the option and, for an option that is formatted
\* from a value ('--google_credentials=%s' % GCLOUD_KEY_FILE), the value.
Arg(o) == [opt |-> o, val |-> <<>>]

ArgOf(o, v) == [opt |-> o, val |-> v]

KeyFileValues == {Unset, <<>>, <<"k">>}

CacheSiloValues == {Unset, <<"p">>}

SiloValues == {Unset, <<>>, <<"s">>}

DefaultSilo == <<"d","e","v">>

\* The four flags of bazel_build vary together: every accepted word, an
\* unset variable and two values that are not accepted.
BazelFlagValues == FlagValues \ {<<>>, <<"o","n">>, <<"n","o">>}

\* self.library_dirs
library_dirs == << <<"l","i","b">> >>

InitBazel ==
  /\ pc = "read_globals"
  /\ \E d, v, c, a \in BazelFlagValues, k \in KeyFileValues,
        n \in CacheSiloValues, m \in SiloValues :
       env = [EmptyEnv EXCEPT !["DEBUG"] = d, !["BAZEL_VERBOSE"] = v,
                              !["XLA_CUDA"] = c, !["XLA_CPU_USE_ACL"] = a,
                              !["GCLOUD_SERVICE_KEY_FILE"] = k,
                              !["CACHE_SILO_NAME"] = n, !["SILO_NAME"] = m]
  /\ \E w \in BOOLEAN : globals = [platform_is_win |-> w]
  /\ bazel_argv = <<>>
  /\ raised = "none"
  /\ IdleVersion /\ IdleLibtpu /\ IdleClean /\ IdleInterp

BazelUnchanged ==
  UNCHANGED <<env, raised, xla_git_sha, version, libtpu, clean, interp>>

\* setup.py:189-194
ReadGlobals ==
  /\ pc = "read_globals"
  /\ globals' =
       [DEBUG |-> _check_env_flag("DEBUG", <<>>),
        IS_WINDOWS |-> globals.platform_is_win,
        GCLOUD_KEY_FILE |-> getenv("GCLOUD_SERVICE_KEY_FILE", <<>>),
        CACHE_SILO_NAME |-> getenv("SILO_NAME", DefaultSilo)]
  /\ pc' = "bazel_build"
  /\ UNCHANGED bazel_argv
  /\ BazelUnchanged

\* bazel_argv.append(x) when cond
AppendIf(argv, cond, x) == IF cond THEN Append(argv, x) ELSE argv

\* setup.py:228-257, the command line bazel_build hands to self.spawn
BazelArgv ==
  LET a0 == <<Arg("bazel"), Arg("build"), Arg("//:_XLAC.so"),
              Arg("--symlink_prefix=<build_temp>/bazel-"),
              Arg("--cxxopt=<extra_compile_args>")>>
      a1 == AppendIf(a0, globals.DEBUG, Arg("--compilation_mode=dbg"))
      a2 == IF globals.GCLOUD_KEY_FILE # <<>>
            THEN AppendIf(
                   a1 \o <<Arg("--config=remote_cache"),
                           ArgOf("--google_credentials=",
                                 globals.GCLOUD_KEY_FILE)>>,
                   globals.CACHE_SILO_NAME # <<>>,
                   ArgOf("cache-silo-key", globals.CACHE_SILO_NAME))
            ELSE a1
      a3 == AppendIf(a2, _check_env_flag("BAZEL_VERBOSE", <<>>), Arg("-s"))
      a4 == AppendIf(a3, _check_env_flag("XLA_CUDA", <<>>),
                     Arg("--config=cuda"))
      a5 == AppendIf(a4, _check_env_flag("XLA_CPU_USE_ACL", <<>>),
                     Arg("--config=acl"))
  IN  IF globals.IS_WINDOWS
      THEN a5 \o [i \in 1..Len(library_dirs) |->
                    ArgOf("--linkopt=/LIBPATH:", library_dirs[i])]
      ELSE a5

\* setup.py:224-259, up to self.spawn(bazel_argv)
BazelBuild ==
  /\ pc = "bazel_build"
  /\ bazel_argv' = BazelArgv
  /\ pc' = "bazel_spawned"
  /\ UNCHANGED globals
  /\ BazelUnchanged

NextBazel == ReadGlobals \/ BazelBuild

SpecBazel == InitBazel /\ [][NextBazel]_vars

HasArg(o) == \E i \in 1..Len(bazel_argv) : bazel_argv[i].opt = o

\* C6: the command line holds --compilation_mode=dbg, -s, --config=cuda and
\* --config=acl exactly when DEBUG, BAZEL_VERBOSE, XLA_CUDA and
\* XLA_CPU_USE_ACL, respectively, are set to one of ON, 1, YES, TRUE, Y in any
\* casing, whatever the other variables are.
C6_BazelFlags ==
  pc = "bazel_spawned" =>
    /\ HasArg("--compilation_mode=dbg") <=> IsOn("DEBUG")
    /\ HasArg("-s") <=> IsOn("BAZEL_VERBOSE")
    /\ HasArg("--config=cuda") <=> IsOn("XLA_CUDA")
    /\ HasArg("--config=acl") <=> IsOn("XLA_CPU_USE_ACL")

C6_Witness ==
  /\ pc = "bazel_spawned"
  /\ env["DEBUG"] = <<"O","n">>
  /\ env["BAZEL_VERBOSE"] = Unset
  /\ env["XLA_CUDA"] = <<"t","r","u","e">>
  /\ env["XLA_CPU_USE_ACL"] = <<"o","n","e">>
  /\ HasArg("--compilation_mode=dbg") /\ HasArg("--config=cuda")
  /\ ~ HasArg("-s") /\ ~ HasArg("--config=acl")

\* C4: with GCLOUD_SERVICE_KEY_FILE set, the cache-silo-key argument carries
\* the value of the environment variable CACHE_SILO_NAME, and there is no
\* such argument when CACHE_SILO_NAME is unset (its default is the empty
\* string).
C4_CacheSiloName ==
  (pc = "bazel_spawned" /\ env["GCLOUD_SERVICE_KEY_FILE"] \notin {Unset, <<>>})
    => IF env["CACHE_SILO_NAME"] = Unset
       THEN ~ HasArg("cache-silo-key")
       ELSE \E i \in 1..Len(bazel_argv) :
              bazel_argv[i] = ArgOf("cache-silo-key", env["CACHE_SILO_NAME"])

----------------------------------------------------------------------------
(* setup.py: Clean.run *)

\* The text of the optional group of the pattern '^#( BEGIN NOT-CLEAN-FILES )?'
MarkerGroup ==
  <<" ","B","E","G","I","N"," ","N","O","T","-","C","L","E","A","N","-",
    "F","I","L","E","S"," ">>

\* s begins with t
StartsWith(s, t) == Len(s) >= Len(t) /\ SubSeq(s, 1, Len(t)) = t

\* A pattern that never sees the marker.
PatMatch_NoGroup(line) ==
  [matched |-> StartsWith(line, <<"#">>), group1 |-> FALSE]

\* setup.py:159,161: pat.match(wildcard) and match.group(1)
PatMatch(line) ==
  [matched |-> StartsWith(line, <<"#">>),
   group1 |-> StartsWith(line, <<"#">> \o MarkerGroup)]

\* fnmatch of a file name against a pattern: '*' is any run of characters,
\* '?' any one character, every other character itself.
RECURSIVE FnMatch(_, _)
FnMatch(p, f) ==
  IF p = <<>> THEN f = <<>>
  ELSE IF Head(p) = "*"
       THEN FnMatch(Tail(p), f) \/ (f # <<>> /\ FnMatch(p, Tail(f)))
       ELSE /\ f # <<>>
            /\ Head(p) = "?" \/ Head(p) = Head(f)
            /\ FnMatch(Tail(p), Tail(f))

HasMagic(p) == \E i \in 1..Len(p) : p[i] \in {"*", "?", "["}

\* setup.py:168, glob.glob(wildcard) in a directory holding `files`: a pattern
\* without a wildcard names one file; a wildcard does not match a leading dot.
Glob(p, files) ==
  IF HasMagic(p)
  THEN {f \in files : (Head(p) = "." \/ Head(f) # ".") /\ FnMatch(p, f)}
  ELSE {f \in files : f = p}

MarkerLine == <<"#">> \o MarkerGroup \o <<"(">>

\* '# BEGIN NOT-CLEAN-FILES' and nothing after it
BareMarkerLine == <<"#">> \o SubSeq(MarkerGroup, 1, Len(MarkerGroup) - 1)

GitignoreLines ==
  {MarkerLine, BareMarkerLine, <<"#","c">>, <<"a">>, <<"*">>, <<".","b">>,
   <<>>}

AllFiles == {<<"a">>, <<".","b">>, <<"c">>}

MaxLines == 3

\* .gitignore as ignores.split('\n') returns it
GitignoreValues == UNION {[1..k -> GitignoreLines] : k \in 0..MaxLines}

InitClean ==
  /\ pc = "clean_open"
  /\ \E g \in GitignoreValues, fs \in SUBSET AllFiles :
       clean = [gitignore |-> g, files0 |-> fs, files |-> fs,
                wildcards |-> <<>>, i |-> 0, deleted_by |-> {},
                base_runs |-> 0]
  /\ env = EmptyEnv
  /\ raised = "none"
  /\ IdleVersion /\ IdleLibtpu /\ IdleBazel /\ IdleInterp

CleanUnchanged ==
  UNCHANGED <<env, raised, xla_git_sha, version, libtpu, globals, bazel_argv,
              interp>>

\* The position after the for statement has taken line i.
AfterLine(ws, i) == IF i + 1 > Len(ws) THEN "clean_base" ELSE "clean_loop"

\* setup.py:157-160: read .gitignore, filter(None, ignores.split('\n'))
CleanOpen ==
  /\ pc = "clean_open"
  /\ LET ws == SelectSeq(clean.gitignore, LAMBDA l : l # <<>>)
     IN  /\ clean' = [clean EXCEPT !.wildcards = ws, !.i = 1]
         /\ pc' = AfterLine(ws, 0)
  /\ CleanUnchanged

\* setup.py:162-165: the marker ends the loop
CleanMarker ==
  /\ pc = "clean_loop"
  /\ PatMatch(clean.wildcards[clean.i]).matched
  /\ PatMatch(clean.wildcards[clean.i]).group1
  /\ pc' = "clean_base"
  /\ UNCHANGED clean
  /\ CleanUnchanged

\* setup.py:162-166: a line beginning with '#' is passed over
CleanComment ==
  /\ pc = "clean_loop"
  /\ PatMatch(clean.wildcards[clean.i]).matched
  /\ ~ PatMatch(clean.wildcards[clean.i]).group1
  /\ clean' = [clean EXCEPT !.i = @ + 1]
  /\ pc' = AfterLine(clean.wildcards, clean.i)
  /\ CleanUnchanged

\* setup.py:167-172: every file the line globs is removed
CleanGlob ==
  /\ pc = "clean_loop"
  /\ ~ PatMatch(clean.wildcards[clean.i]).matched
  /\ LET hit == Glob(clean.wildcards[clean.i], clean.files)
     IN  clean' = [clean EXCEPT
                     !.files = @ \ hit,
                     !.deleted_by =
                        @ \cup {[file |-> f, line |-> clean.i] : f \in hit},
                     !.i = @ + 1]
  /\ pc' = AfterLine(clean.wildcards, clean.i)
  /\ CleanUnchanged

\* setup.py:175: distutils.command.clean.clean.run(self)
CleanBase ==
  /\ pc = "clean_base"
  /\ clean' = [clean EXCEPT !.base_runs = @ + 1]
  /\ pc' = "clean_done"
  /\ CleanUnchanged

NextClean == CleanOpen \/ CleanMarker \/ CleanComment \/ CleanGlob \/ CleanBase

SpecClean == InitClean /\ [][NextClean]_vars

\* The deletions of a run are allowed by the marker `marker`: every file that
\* is gone was deleted by a line that does not begin with '#' and has no line
\* beginning with `marker` before it; the base clean runs once, after the
\* pass over .gitignore, and every run gets there.
CleanRespects(marker) ==
  /\ clean.files0 \ clean.files = {d.file : d \in clean.deleted_by}
  /\ \A d \in clean.deleted_by :
       /\ ~ StartsWith(clean.wildcards[d.line], <<"#">>)
       /\ \A j \in 1..(d.line - 1) : ~ StartsWith(clean.wildcards[j], marker)
  /\ clean.base_runs = (IF pc = "clean_done" THEN 1 ELSE 0)
  /\ pc # "clean_done" => ENABLED NextClean

----------------------------------------------------------------------------
(* test/fsdp_dynamo_resnet_latency_test.py: inference_resnet *)

\* MODEL_OPTS['--auto_wrap_policy']['choices']
AutoWrapChoices == {"none", "size_based", "type_based"}

\* MODEL_OPTS['--compute_dtype']['choices']
DtypeChoices == {"float32", "float16", "bfloat16"}

\* The flags object of a call. The parser admits the choices only; a caller
\* of inference_resnet may hand over any value, "bogus" standing for those.
FlagsValues ==
  [fake_data : BOOLEAN,
   auto_wrap_policy : AutoWrapChoices \cup {"bogus"},
   auto_wrap_min_num_params : {5, 1000},
   use_gradient_checkpointing : BOOLEAN,
   compute_dtype : DtypeChoices,
   fp32_reduce_scatter : BOOLEAN,
   flatten_parameters : BOOLEAN,
   shard_param_on_dim_0 : BOOLEAN,
   pin_layout_in_collective_ops : BOOLEAN,
   sample_count : {7, 10},
   batch_size : {2, 3},
   drop_last : BOOLEAN]

\* Names bound at module level when inference_resnet runs (lines 1-2, 4, 50,
\* 59-84, 87, 178).
GlobalNames ==
  {"args_parse", "partial", "MODEL_OPTS", "FLAGS", "os", "shutil", "sys",
   "time", "torch", "nn", "F", "optim", "torchvision", "torch_xla", "met",
   "pl", "xu", "xm", "xmp", "test_utils", "xp", "FSDP",
   "consolidate_sharded_model_checkpoints", "checkpoint_module",
   "size_based_auto_wrap_policy", "transformer_auto_wrap_policy",
   "inference_resnet", "_mp_fn"}

BuiltinNames == {"print", "float", "getattr", "str", "enumerate", "Exception"}

\* Names inference_resnet assigns somewhere in its body, and its parameters:
\* the compiler makes each a local of the function.
LocalNames ==
  {"flags", "kwargs", "start", "test_loader", "test_dataset", "lr", "device",
   "model", "auto_wrap_policy", "auto_wrapper_callable", "fsdp_wrap",
   "inference_loop_fn", "test_device_loader", "end", "elapsed_time",
   "elapsed_time_per_sample"}

St(l, r, b) == [line |-> l, reads |-> r, binds |-> b]

\* The statements of inference_resnet: the first source line, the names the
\* statement loads in evaluation order, and the locals it binds.
Stmts ==
  << St(89, <<"time">>, {"start"}),
     St(90, <<"torch">>, {}),
     St(92, <<"flags">>, {}),
     St(93, <<"xu", "torch", "batch_size", "device", "torch", "batch_size",
              "torch", "device", "flags", "flags", "xm">>, {"test_loader"}),
     St(98, <<"datasets", "os", "flags", "str", "xm", "transforms",
              "transforms", "transforms">>, {"test_dataset"}),
     St(105, <<"torch", "test_dataset", "flags", "flags", "flags">>,
        {"test_loader"}),
     St(113, <<"flags", "xm">>, {"lr"}),
     St(118, <<"xm">>, {"device"}),
     St(119, <<"torchvision">>, {"model"}),
     St(121, <<>>, {"auto_wrap_policy", "auto_wrapper_callable"}),
     St(123, <<"flags">>, {}),
     St(143, <<>>, {"fsdp_wrap"}),
     St(154, <<"fsdp_wrap", "model", "FSDP", "getattr", "torch", "flags",
               "flags", "flags", "flags", "flags", "auto_wrap_policy",
               "auto_wrapper_callable">>, {"model"}),
     St(156, <<"torch", "model">>, {"model"}),
     St(158, <<"print">>, {}),
     St(161, <<>>, {"inference_loop_fn"}),
     St(165, <<"pl", "test_loader", "device">>, {"test_device_loader"}),
     St(166, <<"torch", "inference_loop_fn", "model", "test_device_loader",
               "enumerate">>, {}),
     St(168, <<"print">>, {}),
     St(169, <<"time">>, {"end"}),
     St(170, <<"end", "start">>, {"elapsed_time"}),
     St(171, <<"elapsed_time", "float", "sample_count">>,
        {"elapsed_time_per_sample"}),
     St(172, <<"print", "elapsed_time", "flags">>, {}),
     St(173, <<"print", "elapsed_time_per_sample">>, {}),
     St(174, <<"xm", "met">>, {}),
     St(176, <<>>, {}) >>

\* The index in Stmts of the statement at a source line.
At(l) == CHOOSE k \in 1..Len(Stmts) : Stmts[k].line = l

\* Loading a name: a local that is not bound yet, and a name that is neither
\* a local, a global nor a builtin, raise NameError (UnboundLocalError is its
\* subclass).
Resolves(name, bound) ==
  IF name \in LocalNames THEN name \in bound
  ELSE name \in GlobalNames \cup BuiltinNames

\* Lines 121, 127-129, 133-135: the value of auto_wrap_policy.
Policy(fn, n, cls) ==
  [fn |-> fn, min_num_params |-> n, transformer_layer_cls |-> cls]

NoPolicy == Policy("None", {}, {})

AutoWrapPolicy(flags) ==
  CASE flags.auto_wrap_policy = "none" -> NoPolicy
    [] flags.auto_wrap_policy = "size_based" ->
         Policy("size_based_auto_wrap_policy",
                {flags.auto_wrap_min_num_params}, {})
    [] flags.auto_wrap_policy = "type_based" ->
         Policy("transformer_auto_wrap_policy", {}, {"Conv2d", "Linear"})
    [] OTHER -> NoPolicy

\* Lines 122, 138-141: the value of auto_wrapper_callable.
AutoWrapperCallable(flags) ==
  IF flags.auto_wrap_policy # "none" /\ flags.use_gradient_checkpointing
  THEN "FSDP(checkpoint_module(m))" ELSE "None"

\* Lines 143-153: the keyword arguments of the FSDP call.
FsdpConfig(flags, policy, callable) ==
  [compute_dtype |-> <<"torch", flags.compute_dtype>>,
   fp32_reduce_scatter |-> flags.fp32_reduce_scatter,
   flatten_parameters |-> flags.flatten_parameters,
   shard_param_on_dim_0 |-> flags.shard_param_on_dim_0,
   pin_layout_in_collective_ops |-> flags.pin_layout_in_collective_ops,
   auto_wrap_policy |-> policy,
   auto_wrapper_callable |-> callable,
   optimization_barrier_in_forward |-> FALSE,
   optimization_barrier_in_backward |-> FALSE]

\* Lines 93-96 and 105-110: the number of batches the loader yields.
LoaderLen(flags, world_size, dataset_len) ==
  IF flags.fake_data
  THEN (flags.sample_count \div flags.batch_size) \div world_size
  ELSE IF flags.drop_last
       THEN dataset_len \div flags.batch_size
       ELSE (dataset_len + flags.batch_size - 1) \div flags.batch_size

\* What the statement at index k does to the state of the call, its names
\* resolved. exc is the exception the statement itself raises, next the index
\* of the statement that follows (0 after return).
Effect(k, s) ==
  LET l == Stmts[k].line
      t == [s EXCEPT !.bound = @ \cup Stmts[k].binds, !.k = k + 1,
                     !.exc = "none"]
  IN  CASE l = 92 ->
             [t EXCEPT !.k = IF s.flags.fake_data THEN At(93) ELSE At(98)]
        [] l = 93 ->
             [t EXCEPT !.k = At(113),
                       !.loader_len =
                          LoaderLen(s.flags, s.world_size, s.dataset_len)]
        [] l = 105 ->
             [t EXCEPT !.loader_len =
                          LoaderLen(s.flags, s.world_size, s.dataset_len)]
        [] l = 121 ->
             [t EXCEPT !.auto_wrap_policy = NoPolicy,
                       !.auto_wrapper_callable = "None"]
        [] l = 123 ->
             IF s.flags.auto_wrap_policy \in AutoWrapChoices
             THEN [t EXCEPT
                     !.auto_wrap_policy = AutoWrapPolicy(s.flags),
                     !.auto_wrapper_callable = AutoWrapperCallable(s.flags)]
             ELSE [t EXCEPT !.exc = "Exception: Invalid auto-wrap policy"]
        [] l = 154 ->
             [t EXCEPT !.fsdp_calls =
                          Append(@, FsdpConfig(s.flags, s.auto_wrap_policy,
                                               s.auto_wrapper_callable))]
        [] l = 156 -> [t EXCEPT !.compiled = TRUE]
        [] l = 158 -> [t EXCEPT !.printed = Append(@, "Starting...")]
        [] l = 166 -> [t EXCEPT !.batches_run = s.loader_len]
        [] l = 168 -> [t EXCEPT !.printed = Append(@, "Done.")]
        [] l = 172 -> [t EXCEPT !.printed = Append(@, "Total time")]
        [] l = 173 -> [t EXCEPT !.printed = Append(@, "Total per sample")]
        [] l = 176 -> [t EXCEPT !.k = 0, !.result = 100]
        [] OTHER -> t

InitInference ==
  /\ pc = "_mp_fn"
  /\ \E f \in FlagsValues, w \in {1, 2}, d \in {4, 5} :
       interp = [flags |-> f, world_size |-> w, dataset_len |-> d, k |-> 0,
                 bound |-> {}, exc |-> "none",
                 auto_wrap_policy |-> Policy("<unbound>", {}, {}),
                 auto_wrapper_callable |-> "<unbound>",
                 fsdp_calls |-> <<>>, compiled |-> FALSE, loader_len |-> 0,
                 batches_run |-> 0, printed |-> <<>>, result |-> 0]
  /\ env = EmptyEnv
  /\ raised = "none"
  /\ IdleVersion /\ IdleLibtpu /\ IdleBazel /\ IdleClean

InferenceUnchanged ==
  UNCHANGED <<env, xla_git_sha, version, libtpu, globals, bazel_argv, clean>>

\* Lines 178-180 and 87: _mp_fn calls inference_resnet(flags); flags and
\* kwargs are bound.
MpFnCall ==
  /\ pc = "_mp_fn"
  /\ interp' = [interp EXCEPT !.k = 1, !.bound = {"flags", "kwargs"}]
  /\ pc' = "inference_resnet"
  /\ UNCHANGED raised
  /\ InferenceUnchanged

Unresolved(k) ==
  {i \in 1..Len(Stmts[k].reads) : ~ Resolves(Stmts[k].reads[i], interp.bound)}

\* One statement of inference_resnet, every name it loads being bound; an
\* exception it raises leaves inference_resnet and _mp_fn.
ExecStatement ==
  /\ pc = "inference_resnet"
  /\ Unresolved(interp.k) = {}
  /\ interp' = Effect(interp.k, interp)
  /\ raised' = interp'.exc
  /\ pc' = IF interp'.exc # "none" THEN "raised"
           ELSE IF interp'.k = 0 THEN "returned" ELSE "inference_resnet"
  /\ InferenceUnchanged

\* A statement that loads a name that is not bound: NameError leaves
\* inference_resnet and _mp_fn.
RaiseNameError ==
  /\ pc = "inference_resnet"
  /\ Unresolved(interp.k) # {}
  /\ LET first == CHOOSE i \in Unresolved(interp.k) :
                    \A j \in Unresolved(interp.k) : i <= j
     IN  interp' = [interp EXCEPT
                      !.exc = "NameError: " \o Stmts[interp.k].reads[first]]
  /\ raised' = "NameError"
  /\ pc' = "raised"
  /\ InferenceUnchanged

NextInference == MpFnCall \/ ExecStatement \/ RaiseNameError

SpecInference == InitInference /\ [][NextInference]_vars

----------------------------------------------------------------------------
(* Statements of the claims about inference_resnet *)

\* The call of inference_resnet is over: it returned or raised.
CallOver == pc \in {"returned", "raised"}

InvalidPolicyError == "Exception: Invalid auto-wrap policy"

\* C1: a call whose auto_wrap_policy flag is outside {none, size_based,
\* type_based} ends with the exception 'Invalid auto-wrap policy' and without
\* an FSDP wrapper having been constructed; a call whose flag is inside the
\* set does not end with that exception.
C1_InvalidPolicyRejected ==
  CallOver =>
    IF interp.flags.auto_wrap_policy \notin AutoWrapChoices
    THEN interp.exc = InvalidPolicyError /\ interp.fsdp_calls = <<>>
    ELSE interp.exc # InvalidPolicyError

\* C2: a call with a flag of the enumerated set hands the FSDP wrapper the
\* flags unchanged: the policy the flag names (None, the size-based one with
\* min_num_params = flags.auto_wrap_min_num_params, the type-based one over
\* {Conv2d, Linear}), and compute_dtype, fp32_reduce_scatter,
\* flatten_parameters, shard_param_on_dim_0, pin_layout_in_collective_ops.
C2_FsdpConfigPassThrough ==
  (CallOver /\ interp.flags.auto_wrap_policy \in AutoWrapChoices) =>
    /\ Len(interp.fsdp_calls) = 1
    /\ LET c == interp.fsdp_calls[1]
           f == interp.flags
       IN  /\ c.auto_wrap_policy.fn = "None" <=> f.auto_wrap_policy = "none"
           /\ f.auto_wrap_policy = "size_based" <=>
                c.auto_wrap_policy =
                  Policy("size_based_auto_wrap_policy",
                         {f.auto_wrap_min_num_params}, {})
           /\ f.auto_wrap_policy = "type_based" <=>
                c.auto_wrap_policy =
                  Policy("transformer_auto_wrap_policy", {},
                         {"Conv2d", "Linear"})
           /\ c.compute_dtype = <<"torch", f.compute_dtype>>
           /\ c.fp32_reduce_scatter = f.fp32_reduce_scatter
           /\ c.flatten_parameters = f.flatten_parameters
           /\ c.shard_param_on_dim_0 = f.shard_param_on_dim_0
           /\ c.pin_layout_in_collective_ops = f.pin_layout_in_collective_ops

\* C8: the auto_wrapper_callable handed to FSDP applies checkpoint_module
\* before FSDP exactly when use_gradient_checkpointing is set and the policy
\* flag is not 'none', and is None in every other case.
C8_CheckpointOnlyAutoWrapped ==
  (CallOver /\ interp.flags.auto_wrap_policy \in AutoWrapChoices) =>
    /\ Len(interp.fsdp_calls) = 1
    /\ interp.fsdp_calls[1].auto_wrapper_callable =
         (IF /\ interp.flags.use_gradient_checkpointing
             /\ interp.flags.auto_wrap_policy # "none"
          THEN "FSDP(checkpoint_module(m))" ELSE "None")

\* C9: for every flag combination the parser accepts, with fake data or not,
\* the call builds the loader, wraps and compiles the model, runs it once on
\* every batch, prints 'Done.' and the timing lines and returns 100, no name
\* being loaded unbound; with fake data the loader yields
\* sample_count // batch_size // world_size batches.
C9_RunsToCompletion ==
  (CallOver /\ interp.flags.auto_wrap_policy \in AutoWrapChoices) =>
    /\ pc = "returned"
    /\ raised = "none"
    /\ interp.result = 100
    /\ Len(interp.fsdp_calls) = 1
    /\ interp.compiled
    /\ interp.batches_run = interp.loader_len
    /\ interp.printed =
         <<"Starting...", "Done.", "Total time", "Total per sample">>
    /\ interp.flags.fake_data =>
         interp.loader_len =
           (interp.flags.sample_count \div interp.flags.batch_size)
             \div interp.world_size

====
